---- MODULE Spec2Model ----
(***************************************************************************)
(* A model of xblock/runtime.py: the key-value store contract and its      *)
(* in-memory implementation (MemoryKeyValueStore), the field-access        *)
(* overlay (DbModel) with its scope -> storage-key derivation, the path    *)
(* lexer and resolver (RegexLexer, Runtime.querypath), and the view and    *)
(* handler dispatch (Runtime.render, render_child, handle).                *)
(*                                                                         *)
(* Conventions                                                             *)
(*   - Python str values are TLA+ strings; ".".join is \o with ".".        *)
(*   - An optional value is a sequence: None is <<>>, a present value x is *)
(*     <<x>>, so that None and the empty string "" stay different values.  *)
(*   - A call's outcome is [return |-> v] or [raise |-> "KeyError"].       *)
(*   - A dict is a function; a missing key is a key outside its DOMAIN.    *)
(***************************************************************************)
EXTENDS Integers, Sequences, FiniteSets, TLC

VARIABLES
    model,      \* the DbModel instances: overlay id -> (_block_cls, _student_id, _block_id)
    d,          \* MemoryKeyValueStore.d: bucket string -> (field_name -> value)
    last,       \* the last call made and its outcome
    nops,       \* number of calls made so far
    lastSet,    \* history: per overlay, name -> value of its latest successful set/update
    writers,    \* history: the overlays whose set/delete/update has succeeded
    gone,       \* history: <<overlay, name>> deleted through overlay, name not set since
    live,       \* history: the keys set and not deleted since
    kres,       \* the pair of keys (and bucket strings) last derived
    path,       \* querypath: the path argument, a sequence of characters
    pos,        \* querypath: the lexer's position in path (finditer's scan position)
    state,      \* querypath: the parser state
    q,          \* querypath: the query object, as the method calls made on it
    toks,       \* history: the tokens the lexer has yielded
    qout,       \* querypath: running, or the returned query, or the exception raised
    blk,        \* per block: its runtime object and its views and handlers
    rt,         \* per Runtime object: its _view_name
    stack,      \* the render and handle calls in progress, innermost last
    ncalls,     \* number of render and handle calls made so far
    log,        \* history: calls, views entered and left, saves, returns and raises
    rout        \* outcome of the outermost call: running, returned or raised

storeVars == <<model, d, last, nops, lastSet, writers, gone, live, kres>>
pathVars == <<path, pos, state, q, toks, qout>>
renderVars == <<blk, rt, stack, ncalls, log, rout>>
otherVars == <<pathVars, renderVars>>
vars == <<storeVars, pathVars, renderVars>>

\* querypath has not been called.
NoPath ==
    /\ path = << >>
    /\ pos = 1
    /\ state = 0
    /\ q = << >>
    /\ toks = << >>
    /\ qout = [idle |-> TRUE]

\* render and handle have not been called.
NoRender ==
    /\ blk = << >>
    /\ rt = << >>
    /\ stack = << >>
    /\ ncalls = 0
    /\ log = << >>
    /\ rout = [idle |-> TRUE]

---------------------------------------------------------------------------
(* Bounds *)

MaxOps == 2          \* calls per behaviour

Values == {1, 2}     \* the values stored
Overlays == {1, 2}   \* two DbModel instances on one store

---------------------------------------------------------------------------
(* Python values *)

None == <<>>
Some(x) == <<x>>
Return(v) == [return |-> v]
Raise(e) == [raise |-> e]
KeyError == Raise("KeyError")
Raised(r) == "raise" \in DOMAIN r
EmptyDict == [x \in {} |-> 0]
DictSet(f, k, v) == [x \in (DOMAIN f) \cup {k} |-> IF x = k THEN v ELSE f[x]]
DictDel(f, k) == [x \in (DOMAIN f) \ {k} |-> f[x]]

---------------------------------------------------------------------------
(* core.Scope and core.BlockScope, as runtime.py uses them *)

USAGE == 0
DEFINITION == 1
TYPE == 2
ALL == 3
BlockScopes == {USAGE, DEFINITION, TYPE, ALL}

Scope(user, block) == [user |-> user, block |-> block]
ScopeChildren == [sentinel |-> "children"]
ScopeParent == [sentinel |-> "parent"]
Scopes == {Scope(u, b) : u \in BOOLEAN, b \in BlockScopes} \cup {ScopeChildren, ScopeParent}

---------------------------------------------------------------------------
(* Block type metadata: ordered own fields, ordered namespace names, and   *)
(* each namespace's ordered fields.  hasNamespaces is hasattr(cls,         *)
(* 'namespaces'); other is the class attributes that are not fields.       *)

ModelType(name, scope) == [name |-> name, scope |-> scope]

ClassA ==
    [name |-> "A",
     fields |-> << ModelType("c", Scope(FALSE, DEFINITION)),
                   ModelType("s", Scope(FALSE, USAGE)),
                   ModelType("u", Scope(TRUE, USAGE)) >>,
     hasNamespaces |-> TRUE,
     namespaces |-> << "n1", "n2" >>,
     ns |-> [n1 |-> << ModelType("g", Scope(TRUE, ALL)),
                       ModelType("s", Scope(TRUE, TYPE)) >>,
             n2 |-> << ModelType("k", ScopeChildren),
                       ModelType("g", Scope(FALSE, ALL)) >>],
     other |-> {"fields", "namespaces", "n1", "n2"}]

ClassB ==
    [name |-> "B",
     fields |-> << ModelType("g", Scope(FALSE, ALL)),
                   ModelType("h", Scope(FALSE, ALL)) >>,
     hasNamespaces |-> FALSE,
     namespaces |-> << >>,
     ns |-> EmptyDict,
     other |-> {"fields"}]

ClassC ==
    [name |-> "C",
     fields |-> << ModelType("p", ScopeParent),
                   ModelType("t", Scope(FALSE, TYPE)),
                   ModelType("q", Scope(TRUE, TYPE)),
                   ModelType("e", Scope(TRUE, DEFINITION)) >>,
     hasNamespaces |-> TRUE,
     namespaces |-> << >>,
     ns |-> EmptyDict,
     other |-> {"fields", "namespaces"}]

BlockClasses == {ClassA, ClassB, ClassC}

BlockId(usage_id, def_id) == [usage_id |-> usage_id, def_id |-> def_id]

\* DbModel.__init__; _block_cls refers to the class by its __name__
DbModel(block_cls, student_id, block_id) ==
    [_block_cls |-> block_cls.name, _student_id |-> student_id, _block_id |-> block_id]

\* The class an overlay refers to.
BlockCls(self) == CHOOSE cls \in BlockClasses : cls.name = self._block_cls

---------------------------------------------------------------------------
(* DbModel._getfield *)

\* The fields of a sequence of declarations that carry `name`, in order.
FieldsNamed(fields, name) == SelectSeq(fields, LAMBDA f : f.name = name)

\* isinstance(x, ModelType)
IsModelType(x) == "scope" \in DOMAIN x

\* getattr(obj, name, None) on a class with the declarations `fields` and the
\* further attributes `other`.
GetAttr(fields, other, name) ==
    IF FieldsNamed(fields, name) # << >> THEN Some(Head(FieldsNamed(fields, name)))
    ELSE IF name \in other THEN Some([attribute |-> name])
    ELSE None

\* The loop over self._block_cls.namespaces from position i on: the field of
\* the first namespace that has one, else None.
RECURSIVE NamespaceField(_, _, _)
NamespaceField(cls, name, i) ==
    IF i > Len(cls.namespaces) THEN None
    ELSE LET namespace_field == GetAttr(cls.ns[cls.namespaces[i]], {"fields"}, name)
         IN  IF namespace_field # None /\ IsModelType(namespace_field[1])
             THEN namespace_field
             ELSE NamespaceField(cls, name, i + 1)

_getfield(self, name) ==
    LET cls == BlockCls(self)
        block_field == GetAttr(cls.fields, cls.other, name)
    IN  IF block_field # None /\ IsModelType(block_field[1]) THEN Return(block_field[1])
        ELSE IF ~cls.hasNamespaces THEN KeyError
        ELSE IF NamespaceField(cls, name, 1) # None
             THEN Return(NamespaceField(cls, name, 1)[1])
        ELSE KeyError

---------------------------------------------------------------------------
(* KeyValueStore.Key and DbModel._key *)

Key(scope, student_id, block_scope_id, field_name) ==
    [scope |-> scope, student_id |-> student_id,
     block_scope_id |-> block_scope_id, field_name |-> field_name]

\* FieldKey with the DEFINITION branch reading usage_id.
FieldKey_DefinitionByUsage(self, field, name) ==
    IF field.scope \in {ScopeChildren, ScopeParent}
    THEN Key(field.scope, None, Some(self._block_id.usage_id), name)
    ELSE LET block == field.scope.block
             block_id ==
                 CASE block = ALL -> None
                   [] block = USAGE -> Some(self._block_id.usage_id)
                   [] block = DEFINITION -> Some(self._block_id.usage_id)
                   [] block = TYPE -> Some(BlockCls(self).name)
             student_id == IF field.scope.user THEN self._student_id ELSE None
         IN  Key(field.scope, student_id, block_id, name)

\* FieldKey that records only the block granularity of the scope, not
\* whether the scope is per-user.
FieldKey_GranularityOnly(self, field, name) ==
    IF field.scope \in {ScopeChildren, ScopeParent}
    THEN Key(field.scope, None, Some(self._block_id.usage_id), name)
    ELSE LET block == field.scope.block
             block_id ==
                 CASE block = ALL -> None
                   [] block = USAGE -> Some(self._block_id.usage_id)
                   [] block = DEFINITION -> Some(self._block_id.def_id)
                   [] block = TYPE -> Some(BlockCls(self).name)
             student_id == IF field.scope.user THEN self._student_id ELSE None
         IN  Key(Scope(FALSE, block), student_id, block_id, name)

\* The key of a resolved field.
FieldKey(self, field, name) ==
    IF field.scope \in {ScopeChildren, ScopeParent}
    THEN Key(field.scope, None, Some(self._block_id.usage_id), name)
    ELSE LET block == field.scope.block
             block_id ==
                 CASE block = ALL -> None
                   [] block = USAGE -> Some(self._block_id.usage_id)
                   [] block = DEFINITION -> Some(self._block_id.def_id)
                   [] block = TYPE -> Some(BlockCls(self).name)
             student_id == IF field.scope.user THEN self._student_id ELSE None
         IN  Key(field.scope, student_id, block_id, name)

_key(self, name) ==
    LET field == _getfield(self, name)
    IN  IF Raised(field) THEN field
        ELSE Return(FieldKey(self, field.return, name))

---------------------------------------------------------------------------
(* MemoryKeyValueStore *)

BlockTag(block) == << "usage", "definition", "type", "all" >>[block + 1]

\* ".".join(k)
RECURSIVE Join(_)
Join(k) ==
    IF Len(k) = 0 THEN ""
    ELSE IF Len(k) = 1 THEN k[1]
    ELSE k[1] \o "." \o Join(Tail(k))

\* actual_key without the block_scope_id part.
actual_key_NoScopeId(key) ==
    LET tag == IF key.scope = ScopeChildren THEN "children"
               ELSE IF key.scope = ScopeParent THEN "parent"
               ELSE BlockTag(key.scope.block)
        student_part == IF key.student_id # None /\ key.student_id # Some("")
                        THEN key.student_id ELSE << >>
    IN  Join(<< tag >> \o student_part)

actual_key(key) ==
    LET tag == IF key.scope = ScopeChildren THEN "children"
               ELSE IF key.scope = ScopeParent THEN "parent"
               ELSE BlockTag(key.scope.block)
        scope_part == IF key.block_scope_id # None THEN key.block_scope_id ELSE << >>
        \* `if key.student_id:` is false for None and for the empty string
        student_part == IF key.student_id # None /\ key.student_id # Some("")
                        THEN key.student_id ELSE << >>
    IN  Join(<< tag >> \o scope_part \o student_part)

\* self.d[bucket][field_name], d a dict of dicts
KvsGet(store, key) ==
    LET bucket == actual_key(key)
    IN  IF bucket \notin DOMAIN store THEN KeyError
        ELSE IF key.field_name \notin DOMAIN store[bucket] THEN KeyError
        ELSE Return(store[bucket][key.field_name])

\* set that replaces the bucket: self.d[bucket] = {field_name: value}
KvsSet_ReplaceBucket(store, key, value) ==
    DictSet(store, actual_key(key), DictSet(EmptyDict, key.field_name, value))

\* self.d.setdefault(bucket, {})[field_name] = value
KvsSet(store, key, value) ==
    LET bucket == actual_key(key)
        fields == IF bucket \in DOMAIN store THEN store[bucket] ELSE EmptyDict
    IN  DictSet(store, bucket, DictSet(fields, key.field_name, value))

\* delete that leaves the entry in place with the value None
KvsDelete_Tombstone(store, key) ==
    LET bucket == actual_key(key)
    IN  IF bucket \notin DOMAIN store THEN [d |-> store, out |-> KeyError]
        ELSE IF key.field_name \notin DOMAIN store[bucket]
             THEN [d |-> store, out |-> KeyError]
        ELSE [d |-> DictSet(store, bucket, DictSet(store[bucket], key.field_name, None)),
              out |-> Return(None)]

\* del self.d[bucket][field_name]: the store afterwards and the outcome
KvsDelete(store, key) ==
    LET bucket == actual_key(key)
    IN  IF bucket \notin DOMAIN store THEN [d |-> store, out |-> KeyError]
        ELSE IF key.field_name \notin DOMAIN store[bucket]
             THEN [d |-> store, out |-> KeyError]
        ELSE [d |-> DictSet(store, bucket, DictDel(store[bucket], key.field_name)),
              out |-> Return(None)]

\* key.field_name in self.d[bucket]: the subscript fails on a missing bucket
KvsHas(store, key) ==
    LET bucket == actual_key(key)
    IN  IF bucket \notin DOMAIN store THEN KeyError
        ELSE Return(key.field_name \in DOMAIN store[bucket])

\* set_many that returns after its first item
KvsSetMany_FirstOnly(store, items) ==
    IF items = << >> THEN store
    ELSE KvsSet(store, Head(items)[1], Head(items)[2])

\* set_many: one set per item, items a sequence of <<key, value>> in the
\* order the dict yields them
RECURSIVE KvsSetMany(_, _)
KvsSetMany(store, items) ==
    IF items = << >> THEN store
    ELSE KvsSetMany(KvsSet(store, Head(items)[1], Head(items)[2]), Tail(items))

---------------------------------------------------------------------------
(* DbModel: the mapping interface.  Each handler yields the store          *)
(* afterwards, its outcome and the store methods it called, in order.      *)

Result(store, out, calls) == [d |-> store, out |-> out, calls |-> calls]

\* __getitem__
DbGet(store, self, name) ==
    LET key == _key(self, name)
    IN  IF Raised(key) THEN Result(store, key, << >>)
        ELSE Result(store, KvsGet(store, key.return), << "get" >>)

\* __setitem__
DbSet(store, self, name, value) ==
    LET key == _key(self, name)
    IN  IF Raised(key) THEN Result(store, key, << >>)
        ELSE Result(KvsSet(store, key.return, value), Return(None), << "set" >>)

\* __delitem__
DbDelete(store, self, name) ==
    LET key == _key(self, name)
    IN  IF Raised(key) THEN Result(store, key, << >>)
        ELSE Result(KvsDelete(store, key.return).d, KvsDelete(store, key.return).out,
                    << "delete" >>)

\* __contains__: a KeyError of _key or of has is answered with False
DbContains(store, self, name) ==
    LET key == _key(self, name)
    IN  IF Raised(key) THEN Result(store, Return(FALSE), << >>)
        ELSE IF Raised(KvsHas(store, key.return))
             THEN Result(store, Return(FALSE), << "has" >>)
        ELSE Result(store, KvsHas(store, key.return), << "has" >>)

\* [field.name for field in fields]
FieldNames(fields) == [i \in 1..Len(fields) |-> fields[i].name]

\* The loop of keys over self._block_cls.namespaces from position i on.
RECURSIVE ExtendKeys(_, _, _)
ExtendKeys(cls, fields, i) ==
    IF i > Len(cls.namespaces) THEN fields
    ELSE ExtendKeys(cls, fields \o FieldNames(cls.ns[cls.namespaces[i]]), i + 1)

\* keys; a class without the attribute namespaces has no
\* self._block_cls.namespaces to loop over
DbKeys(store, self) ==
    LET cls == BlockCls(self)
    IN  IF ~cls.hasNamespaces THEN Result(store, Raise("AttributeError"), << >>)
        ELSE Result(store, Return(ExtendKeys(cls, FieldNames(cls.fields), 1)), << >>)

\* __len__
DbLen(store, self) ==
    IF Raised(DbKeys(store, self).out) THEN DbKeys(store, self)
    ELSE Result(store, Return(Len(DbKeys(store, self).out.return)), << >>)

\* The orders in which a dict with the key set S may be iterated.
Orders(S) == {o \in [1..Cardinality(S) -> S] : \A i, j \in DOMAIN o : i # j => o[i] # o[j]}

\* update that sets each entry as soon as its name is resolved
RECURSIVE UpdateEager(_, _, _, _, _)
UpdateEager(store, self, mapping, order, calls) ==
    IF order = << >> THEN Result(store, Return(None), calls)
    ELSE IF Raised(_key(self, Head(order))) THEN Result(store, KeyError, calls)
    ELSE UpdateEager(KvsSet(store, _key(self, Head(order)).return, mapping[Head(order)]),
                     self, mapping, Tail(order), Append(calls, "set"))

DbUpdate_Eager(store, self, mapping, order) == UpdateEager(store, self, mapping, order, << >>)

\* update: other_dict (with kwargs merged in) is `mapping`; `order` is the
\* order in which updated_dict.items() yields the resolved keys.
DbUpdate(store, self, mapping, order) ==
    IF \E name \in DOMAIN mapping : Raised(_key(self, name))
    THEN Result(store, KeyError, << >>)
    ELSE LET updated == [i \in 1..Len(order) |->
                            << _key(self, order[i]).return, mapping[order[i]] >>]
         IN  Result(KvsSetMany(store, updated), Return(None), << "set_many" >>)

---------------------------------------------------------------------------
(* The inputs *)

Students == {None, Some(""), Some("s")}

\* Where the second overlay's block sits relative to the first (class A,
\* usage "a" of definition "d"): the same placement, another placement of
\* the same definition, a block of another type.
Placements ==
    { [cls |-> ClassA, id |-> BlockId("a", "d")],
      [cls |-> ClassA, id |-> BlockId("b", "d")],
      [cls |-> ClassB, id |-> BlockId("b", "e")] }

\* The names a class declares, on itself or on a namespace.
DeclaredNames(cls) ==
    {cls.fields[i].name : i \in DOMAIN cls.fields}
        \cup UNION {{cls.ns[n][i].name : i \in DOMAIN cls.ns[n]} : n \in DOMAIN cls.ns}

\* A name that no class declares and that is no attribute of any class.
Undeclared == {"z"}

\* The names the calls are made with: declared ones and an undeclared one.
Names(self) ==
    IF BlockCls(self) = ClassA THEN {"c", "u", "g"} \cup Undeclared
    ELSE DeclaredNames(BlockCls(self)) \cup Undeclared

\* The name sets update() is called with: none, one or two declared names,
\* and a declared name together with an undeclared one.
UpdateNames(self) ==
    IF BlockCls(self) = ClassA
    THEN {{}, {"c"}, {"c", "u"}, {"u", "g"}, {"c", "z"}}
    ELSE {{}, {"g"}, {"g", "h"}, {"g", "z"}}

\* The mappings update() is called with.
Mappings(self) == UNION {[S -> Values] : S \in UpdateNames(self)}

NoCall == [op |-> "init", o |-> 0, names |-> {}, out |-> Return(None), calls |-> << >>]
Call(op, o, names, r) == [op |-> op, o |-> o, names |-> names, out |-> r.out, calls |-> r.calls]

Init ==
    /\ \E s1 \in {None, Some("s")}, s2 \in Students, p \in Placements :
           model = (1 :> DbModel(ClassA, s1, BlockId("a", "d")))
                       @@ (2 :> DbModel(p.cls, s2, p.id))
    /\ d = EmptyDict
    /\ last = NoCall
    /\ nops = 0
    /\ lastSet = [o \in Overlays |-> EmptyDict]
    /\ writers = {}
    /\ gone = {}
    /\ live = {}
    /\ kres = << >>
    /\ NoPath
    /\ NoRender

---------------------------------------------------------------------------
(* The calls *)

\* model[o][name]
Get(o, name) ==
    /\ last' = Call("get", o, {name}, DbGet(d, model[o], name))
    /\ nops' = nops + 1
    /\ UNCHANGED <<model, d, lastSet, writers, gone, live, kres>>
    /\ UNCHANGED otherVars

\* name in model[o]
Contains(o, name) ==
    /\ last' = Call("contains", o, {name}, DbContains(d, model[o], name))
    /\ nops' = nops + 1
    /\ UNCHANGED <<model, d, lastSet, writers, gone, live, kres>>
    /\ UNCHANGED otherVars

\* What a call that changes the store leaves behind: r is the handler's
\* result, keys the keys it wrote (set) or removed (delete) on success.
Written(op, o, names, r) ==
    /\ d' = r.d
    /\ last' = Call(op, o, names, r)
    /\ nops' = nops + 1
    /\ writers' = IF Raised(r.out) THEN writers ELSE writers \cup {o}
    /\ UNCHANGED <<model, kres>>
    /\ UNCHANGED otherVars

\* model[o][name] = value
Set(o, name, value) ==
    \E r \in {DbSet(d, model[o], name, value)} :
        /\ Written("set", o, {name}, r)
        /\ IF Raised(r.out)
           THEN UNCHANGED <<lastSet, gone, live>>
           ELSE /\ lastSet' = [lastSet EXCEPT ![o] = DictSet(@, name, value)]
                /\ gone' = {g \in gone : g[2] # name}
                /\ live' = live \cup {_key(model[o], name).return}

\* del model[o][name]
Delete(o, name) ==
    \E r \in {DbDelete(d, model[o], name)} :
        /\ Written("delete", o, {name}, r)
        /\ IF Raised(r.out)
           THEN UNCHANGED <<lastSet, gone, live>>
           ELSE /\ lastSet' = [lastSet EXCEPT ![o] = DictDel(@, name)]
                /\ gone' = gone \cup {<<o, name>>}
                /\ live' = live \ {_key(model[o], name).return}

\* model[o].update(mapping); the dict of resolved keys is iterated in any order
Update(o, mapping) ==
    \E order \in Orders(DOMAIN mapping) :
        \E r \in {DbUpdate(d, model[o], mapping, order)} :
            /\ Written("update", o, DOMAIN mapping, r)
            /\ IF Raised(r.out)
               THEN UNCHANGED <<lastSet, gone, live>>
               ELSE /\ lastSet' = [lastSet EXCEPT ![o] =
                                       [n \in (DOMAIN @) \cup DOMAIN mapping |->
                                           IF n \in DOMAIN mapping THEN mapping[n] ELSE @[n]]]
                    /\ gone' = {g \in gone : g[2] \notin DOMAIN mapping}
                    /\ live' = live \cup {_key(model[o], n).return : n \in DOMAIN mapping}

\* kvs.has(key), called on the store itself with the key of a declared field
Has(o, name) ==
    /\ ~Raised(_key(model[o], name))
    /\ last' = Call("has", o, {name},
                    Result(d, KvsHas(d, _key(model[o], name).return), << "has" >>))
    /\ nops' = nops + 1
    /\ UNCHANGED <<model, d, lastSet, writers, gone, live, kres>>
    /\ UNCHANGED otherVars

\* model[o].keys()
Keys(o) ==
    /\ last' = Call("keys", o, {}, DbKeys(d, model[o]))
    /\ nops' = nops + 1
    /\ UNCHANGED <<model, d, lastSet, writers, gone, live, kres>>
    /\ UNCHANGED otherVars

\* len(model[o])
LenOf(o) ==
    /\ last' = Call("len", o, {}, DbLen(d, model[o]))
    /\ nops' = nops + 1
    /\ UNCHANGED <<model, d, lastSet, writers, gone, live, kres>>
    /\ UNCHANGED otherVars

GetCall == nops < MaxOps /\ \E o \in Overlays : \E name \in Names(model[o]) : Get(o, name)
ContainsCall == nops < MaxOps /\ \E o \in Overlays : \E name \in Names(model[o]) : Contains(o, name)
SetCall == nops < MaxOps /\ \E o \in Overlays : \E name \in Names(model[o]), value \in Values : Set(o, name, value)
DeleteCall == nops < MaxOps /\ \E o \in Overlays : \E name \in Names(model[o]) : Delete(o, name)
UpdateCall == nops < MaxOps /\ \E o \in Overlays : \E mapping \in Mappings(model[o]) : Update(o, mapping)
HasCall == nops < MaxOps /\ \E o \in Overlays : \E name \in Names(model[o]) : Has(o, name)

KeysCall == nops < MaxOps /\ \E o \in Overlays : Keys(o)
LenCall == nops < MaxOps /\ \E o \in Overlays : LenOf(o)

Next ==
    \/ GetCall \/ ContainsCall \/ SetCall \/ DeleteCall \/ UpdateCall \/ HasCall
    \/ KeysCall \/ LenCall

Spec == Init /\ [][Next]_vars

---------------------------------------------------------------------------
(* Key derivation on its own: two overlays drawn from every combination of *)
(* class, acting user and block identity; _key is applied to one name of   *)
(* each, then actual_key to the two keys.                                  *)

KeyStudents == {None, Some(""), Some("b")}
KeyUsageIds == {"a", "a.b"}
KeyDefIds == {"d", "e"}

KeyModels ==
    {DbModel(cls, student, BlockId(u, df)) :
        cls \in BlockClasses, student \in KeyStudents, u \in KeyUsageIds, df \in KeyDefIds}

\* Every declared name, a name that is no attribute, one that is no field.
KeyNames(self) == DeclaredNames(BlockCls(self)) \cup {"z", "fields"}

InitKey ==
    /\ model \in [Overlays -> KeyModels]
    /\ d = EmptyDict
    /\ last = NoCall
    /\ nops = 0
    /\ lastSet = [o \in Overlays |-> EmptyDict]
    /\ writers = {}
    /\ gone = {}
    /\ live = {}
    /\ kres = << >>
    /\ NoPath
    /\ NoRender

\* key_i = model[i]._key(name_i)
DeriveKeys ==
    /\ kres = << >>
    /\ \E n1 \in KeyNames(model[1]), n2 \in KeyNames(model[2]) :
           kres' = [names |-> << n1, n2 >>,
                    keys |-> << _key(model[1], n1), _key(model[2], n2) >>,
                    buckets |-> << >>]
    /\ UNCHANGED <<model, d, last, nops, lastSet, writers, gone, live>>
    /\ UNCHANGED otherVars

\* bucket_i = kvs.actual_key(key_i), for two keys that were derived
ActualKeys ==
    /\ kres # << >>
    /\ kres.buckets = << >>
    /\ \A i \in Overlays : ~Raised(kres.keys[i])
    /\ kres' = [kres EXCEPT !.buckets = << actual_key(kres.keys[1].return),
                                           actual_key(kres.keys[2].return) >>]
    /\ UNCHANGED <<model, d, last, nops, lastSet, writers, gone, live>>
    /\ UNCHANGED otherVars

NextKey == DeriveKeys \/ ActualKeys

SpecKey == InitKey /\ [][NextKey]_vars

---------------------------------------------------------------------------
(* RegexLexer and Runtime.querypath.  A path is a sequence of characters;  *)
(* the query object is the sequence of the method calls made on it.        *)

MaxPathLen == 5

\* \w matches WordChars; "." (the err pattern) matches anything but "\n".
WordChars == {"a", "b"}
Chars == {".", "/", "@", " ", "\n"} \cup WordChars
Paths == UNION {[1..n -> Chars] : n \in 0..MaxPathLen}

ROOT == 0
SEP == 1
WORD == 2
FINAL == 3

\* The characters of text from position i to position j, as a str.
RECURSIVE Str(_, _, _)
Str(text, i, j) == IF i > j THEN "" ELSE text[i] \o Str(text, i + 1, j)

\* The length of the longest run of \w characters of text that starts at i.
RECURSIVE WordRun(_, _)
WordRun(text, i) ==
    IF i > Len(text) \/ text[i] \notin WordChars THEN 0 ELSE 1 + WordRun(text, i + 1)

\* The next character of text after position i is c.
Followed(text, i, c) == i + 1 <= Len(text) /\ text[i + 1] = c

\* The alternative of the lexer's regex that matches at position i, first
\* alternative first, and the length it matches; length 0 is no match.
MatchAt(text, i) ==
    LET c == text[i]
    IN  IF c = "." /\ Followed(text, i, ".") THEN [name |-> "dotdot", len |-> 2]
        ELSE IF c = "." THEN [name |-> "dot", len |-> 1]
        ELSE IF c = "/" /\ Followed(text, i, "/") THEN [name |-> "slashslash", len |-> 2]
        ELSE IF c = "/" THEN [name |-> "slash", len |-> 1]
        ELSE IF c = "@" /\ WordRun(text, i + 1) > 0
             THEN [name |-> "atword", len |-> 1 + WordRun(text, i + 1)]
        ELSE IF c \in WordChars THEN [name |-> "word", len |-> WordRun(text, i)]
        ELSE IF c # "\n" THEN [name |-> "err", len |-> 1]
        ELSE [name |-> "", len |-> 0]

\* finditer from position i: the next match, found by moving on over the
\* positions where no alternative matches; None at the end of text.
RECURSIVE lex(_, _)
lex(text, i) ==
    IF i > Len(text) THEN None
    ELSE LET m == MatchAt(text, i)
         IN  IF m.len = 0 THEN lex(text, i + 1)
             ELSE Some([tokname |-> m.name,
                        first |-> i,
                        last |-> i + m.len - 1,
                        toktext |-> Str(text, i, i + m.len - 1)])

Running == [running |-> TRUE]
BadPath == Raise("BadPath")
NotImplementedError == Raise("NotImplementedError")

\* The lexer yields a token named tokname while querypath runs.
Token(tokname) ==
    /\ qout = Running
    /\ lex(path, pos) # None
    /\ lex(path, pos)[1].tokname = tokname

\* The token is consumed: the loop goes on with new_state and new_q.
Consume(new_state, new_q) ==
    /\ state' = new_state
    /\ q' = new_q
    /\ toks' = Append(toks, lex(path, pos)[1])
    /\ pos' = lex(path, pos)[1].last + 1
    /\ UNCHANGED <<path, qout, storeVars, renderVars>>

\* The loop body raises exc at the token.
Fail(exc) ==
    /\ qout' = exc
    /\ toks' = Append(toks, lex(path, pos)[1])
    /\ pos' = lex(path, pos)[1].last + 1
    /\ UNCHANGED <<path, state, q, storeVars, renderVars>>

\* tokens after the last one are passed over
AfterFinal_Ignored ==
    /\ qout = Running
    /\ lex(path, pos) # None
    /\ state = FINAL
    /\ Consume(FINAL, q)

\* if state == FINAL: raise BadPath()
AfterFinal ==
    /\ qout = Running
    /\ lex(path, pos) # None
    /\ state = FINAL
    /\ Fail(BadPath)

Dotdot ==
    /\ Token("dotdot") /\ state # FINAL
    /\ IF state = WORD THEN Fail(BadPath)
       ELSE Consume(WORD, Append(q, << "parent" >>))

Dot ==
    /\ Token("dot") /\ state # FINAL
    /\ IF state = WORD THEN Fail(BadPath)
       ELSE Consume(WORD, q)

\* the slashslash branch without its check of state == ROOT
Slashslash_RootAccepted ==
    /\ Token("slashslash") /\ state # FINAL
    /\ IF state = SEP THEN Fail(BadPath)
       ELSE Consume(SEP, Append(q, << "descendants" >>))

Slashslash ==
    /\ Token("slashslash") /\ state # FINAL
    /\ IF state = SEP THEN Fail(BadPath)
       ELSE IF state = ROOT THEN Fail(NotImplementedError)
       ELSE Consume(SEP, Append(q, << "descendants" >>))

Slash ==
    /\ Token("slash") /\ state # FINAL
    /\ IF state = SEP THEN Fail(BadPath)
       ELSE IF state = ROOT THEN Fail(NotImplementedError)
       ELSE Consume(SEP, q)

Atword ==
    /\ Token("atword") /\ state # FINAL
    /\ IF state # SEP THEN Fail(BadPath)
       ELSE LET t == lex(path, pos)[1]
            IN  Consume(FINAL, Append(q, << "attr", Str(path, t.first + 1, t.last) >>))

Word ==
    /\ Token("word") /\ state # FINAL
    /\ IF state # SEP THEN Fail(BadPath)
       ELSE Consume(WORD, q \o << << "children" >>, << "tagged", lex(path, pos)[1].toktext >> >>)

Err ==
    /\ Token("err") /\ state # FINAL
    /\ Fail(BadPath)

\* return q, when the lexer has no further token
ReturnQuery ==
    /\ qout = Running
    /\ lex(path, pos) = None
    /\ qout' = Return(q)
    /\ pos' = Len(path) + 1
    /\ UNCHANGED <<path, state, q, toks, storeVars, renderVars>>

\* querypath(block, path) is called: q = self.query(block), state = ROOT
InitPath ==
    /\ path \in Paths
    /\ pos = 1
    /\ state = ROOT
    /\ q = << >>
    /\ toks = << >>
    /\ qout = Running
    /\ model = << >>
    /\ d = EmptyDict
    /\ last = NoCall
    /\ nops = 0
    /\ lastSet = << >>
    /\ writers = {}
    /\ gone = {}
    /\ live = {}
    /\ kres = << >>
    /\ NoRender

NextPath ==
    \/ AfterFinal
    \/ Dotdot
    \/ Dot
    \/ Slashslash
    \/ Slash
    \/ Atword
    \/ Word
    \/ Err
    \/ ReturnQuery

SpecPath == InitPath /\ [][NextPath]_vars

---------------------------------------------------------------------------
(* Runtime.render, render_child, render_children and handle.  A block has  *)
(* a runtime object, children, views and handlers; its views render its    *)
(* children through self.runtime.                                          *)

Blocks == {"r", "c1", "c2", "g"}
Children == [r |-> << "c1", "c2" >>, c1 |-> << "g" >>, c2 |-> << >>, g |-> << >>]
Runtimes == {1, 2, 3}

\* What getattr finds on a block: its views, its handlers, its fallbacks.
Attrs(views, handlers, fallbacks) ==
    [views |-> views, handlers |-> handlers,
     fallback_view |-> fallbacks, fallback_handler |-> fallbacks]
Named == Attrs({"v", "w"}, {"h"}, FALSE)
OnlyV == Attrs({"v"}, {"h"}, FALSE)
Fallbacks == Attrs({}, {}, TRUE)
Bare == Attrs({}, {}, FALSE)

BlockConfigs ==
    {[r |-> [runtime |-> 1, attrs |-> a],
      c1 |-> [runtime |-> r1, attrs |-> a1],
      c2 |-> [runtime |-> r2, attrs |-> a2],
      g |-> [runtime |-> r3, attrs |-> a3]] :
        a \in {Named, Fallbacks, Bare}, a1 \in {Named, Fallbacks}, a2 \in {Named, OnlyV},
        a3 \in {Named, Bare}, r1 \in Runtimes, r2 \in Runtimes, r3 \in Runtimes}

\* A call of self.render(block, context, name) or self.handle(block, name,
\* data) that has been made; given is the view_name render_child was given.
Frame(id, fn, self, block, name, given) ==
    [id |-> id, fn |-> fn, self |-> self, block |-> block, name |-> name,
     given |-> given, pc |-> "enter", next |-> 1]

Top == stack[Len(stack)]
At(fn, pc) == rout = Running /\ stack # << >> /\ Top.fn = fn /\ Top.pc = pc
SetTop(f) == [stack EXCEPT ![Len(stack)] = f]
Pop == SubSeq(stack, 1, Len(stack) - 1)

\* An exception leaves the call on top; nothing below catches it.
RaiseFrom(exc) ==
    /\ stack' = << >>
    /\ rout' = Raise(exc)
    /\ log' = Append(log, << "raise", Top.id, exc >>)

\* The call on top returns, to the call below or to the outermost caller.
ReturnFrom(events) ==
    /\ stack' = Pop
    /\ rout' = IF Len(stack) = 1 THEN Return(Top.id) ELSE rout
    /\ log' = log \o events \o << << "return", Top.id >> >>

\* render up to the view call: self._view_name = view_name, then the view
\* or the fallback view is looked up
RenderEnter ==
    /\ At("render", "enter")
    /\ rt' = [rt EXCEPT ![Top.self] = Top.name]
    /\ IF Top.name = None
       THEN RaiseFrom("TypeError")
       ELSE IF Top.name[1] \in blk[Top.block].attrs.views
                 \/ blk[Top.block].attrs.fallback_view
            THEN /\ stack' = SetTop([Top EXCEPT !.pc = "view"])
                 /\ log' = Append(log, << "view", Top.id >>)
                 /\ UNCHANGED rout
       ELSE RaiseFrom("NoSuchViewError")
    /\ UNCHANGED <<blk, ncalls, storeVars, pathVars>>

\* The view calls self.runtime.render_child(child, context, given) for its
\* next child, as render_children does for each child in turn:
\* child.runtime.render(child, context, given or self._view_name)
RenderChild(given) ==
    /\ At("render", "view")
    /\ Top.next <= Len(Children[Top.block])
    /\ LET child == Children[Top.block][Top.next]
           self == blk[Top.block].runtime
           view_name == IF given # None THEN given ELSE rt[self]
       IN  /\ stack' = Append(SetTop([Top EXCEPT !.next = @ + 1]),
                              Frame(ncalls + 1, "render", blk[child].runtime, child,
                                    view_name, given))
           /\ log' = Append(log, << "call", ncalls + 1, "render", child, view_name >>)
    /\ ncalls' = ncalls + 1
    /\ UNCHANGED <<blk, rt, rout, storeVars, pathVars>>

\* frag = view_fn(context) returns
ViewReturn ==
    /\ At("render", "view")
    /\ stack' = SetTop([Top EXCEPT !.pc = "save"])
    /\ log' = Append(log, << "viewreturn", Top.id >>)
    /\ UNCHANGED <<blk, rt, ncalls, rout, storeVars, pathVars>>

\* view_fn(context) raises
ViewRaise ==
    /\ At("render", "view")
    /\ RaiseFrom("ViewError")
    /\ UNCHANGED <<blk, rt, ncalls, storeVars, pathVars>>

\* render that returns the fragment without saving the block
RenderFinish_NoSave ==
    /\ At("render", "save")
    /\ rt' = [rt EXCEPT ![Top.self] = None]
    /\ ReturnFrom(<< >>)
    /\ UNCHANGED <<blk, ncalls, storeVars, pathVars>>

\* block.save(); self._view_name = None; return self.wrap_child(...)
RenderFinish ==
    /\ At("render", "save")
    /\ rt' = [rt EXCEPT ![Top.self] = None]
    /\ ReturnFrom(<< << "save", Top.id, Top.block >> >>)
    /\ UNCHANGED <<blk, ncalls, storeVars, pathVars>>

\* handle up to the handler call: the handler or the fallback handler is
\* looked up
HandleEnter ==
    /\ At("handle", "enter")
    /\ IF Top.name[1] \in blk[Top.block].attrs.handlers
             \/ blk[Top.block].attrs.fallback_handler
       THEN /\ stack' = SetTop([Top EXCEPT !.pc = "view"])
            /\ log' = Append(log, << "view", Top.id >>)
            /\ UNCHANGED rout
       ELSE RaiseFrom("NoSuchHandlerError")
    /\ UNCHANGED <<blk, rt, ncalls, storeVars, pathVars>>

\* results = handler(data) returns
HandlerReturn ==
    /\ At("handle", "view")
    /\ stack' = SetTop([Top EXCEPT !.pc = "save"])
    /\ log' = Append(log, << "viewreturn", Top.id >>)
    /\ UNCHANGED <<blk, rt, ncalls, rout, storeVars, pathVars>>

\* handler(data) raises
HandlerRaise ==
    /\ At("handle", "view")
    /\ RaiseFrom("HandlerError")
    /\ UNCHANGED <<blk, rt, ncalls, storeVars, pathVars>>

\* block.save(); return results
HandleFinish ==
    /\ At("handle", "save")
    /\ ReturnFrom(<< << "save", Top.id, Top.block >> >>)
    /\ UNCHANGED <<blk, rt, ncalls, storeVars, pathVars>>

RenderChildCall == \E given \in {None, Some("w")} : RenderChild(given)

\* The outermost call: block.runtime.render(block, context, view_name) or
\* block.runtime.handle(block, handler_name, data), on fresh Runtime objects.
InitRender ==
    /\ blk \in BlockConfigs
    /\ rt = [x \in Runtimes |-> None]
    /\ \E fn \in {"render", "handle"}, b \in {"r", "c1"} :
           \E name \in IF fn = "render" THEN {"v", "w"} ELSE {"h", "x"} :
               /\ stack = << Frame(1, fn, blk[b].runtime, b, Some(name), Some(name)) >>
               /\ log = << << "call", 1, fn, b, Some(name) >> >>
    /\ ncalls = 1
    /\ rout = Running
    /\ NoPath
    /\ model = << >>
    /\ d = EmptyDict
    /\ last = NoCall
    /\ nops = 0
    /\ lastSet = << >>
    /\ writers = {}
    /\ gone = {}
    /\ live = {}
    /\ kres = << >>

NextRender ==
    \/ RenderEnter
    \/ RenderChildCall
    \/ ViewReturn
    \/ ViewRaise
    \/ RenderFinish
    \/ HandleEnter
    \/ HandlerReturn
    \/ HandlerRaise
    \/ HandleFinish

SpecRender == InitRender /\ [][NextRender]_vars

---------------------------------------------------------------------------
(* What the specification says of a scope *)

Granularity(scope) ==
    IF scope = ScopeChildren THEN "CHILDREN"
    ELSE IF scope = ScopeParent THEN "PARENT"
    ELSE << "USAGE", "DEFINITION", "TYPE", "ALL" >>[scope.block + 1]

PerUser(scope) == scope \notin {ScopeChildren, ScopeParent} /\ scope.user

\* The field a declared name resolves to.
Field(self, name) == _getfield(self, name).return

Declared(self, name) == ~Raised(_getfield(self, name))

---------------------------------------------------------------------------
(* C2 *)

\* The key the specification's table gives for a field.
TableBlockScopeId(self, scope) ==
    CASE Granularity(scope) = "ALL" -> None
      [] Granularity(scope) = "TYPE" -> Some(self._block_cls)
      [] Granularity(scope) = "DEFINITION" -> Some(self._block_id.def_id)
      [] Granularity(scope) \in {"USAGE", "CHILDREN", "PARENT"} -> Some(self._block_id.usage_id)

TableUserId(self, scope) ==
    IF PerUser(scope) /\ Granularity(scope) \notin {"CHILDREN", "PARENT"}
    THEN self._student_id ELSE None

\* C2: for every declared field, block identity, block type and acting user
\* the key derived by _key is Key(scope, user_id, block_scope_id, field_name)
\* with block_scope_id null for ALL, the type name for TYPE, definition_id
\* for DEFINITION, usage_id for USAGE, CHILDREN and PARENT, and user_id the
\* acting user iff the scope is per-user and not CHILDREN/PARENT, else null.
C2_KeyTable ==
    kres # << >> =>
        \A i \in Overlays :
            Declared(model[i], kres.names[i]) =>
                LET scope == Field(model[i], kres.names[i]).scope
                IN  kres.keys[i] =
                        Return(Key(scope, TableUserId(model[i], scope),
                                   TableBlockScopeId(model[i], scope), kres.names[i]))

\* A tree-structure field of a block with an acting user, next to a
\* per-user DEFINITION field of a block whose two ids differ.
C2_Witness ==
    /\ kres # << >>
    /\ \A i \in Overlays : ~Raised(kres.keys[i])
    /\ kres.keys[1].return.scope = ScopeParent
    /\ model[1]._student_id = Some("b")
    /\ kres.keys[1].return.student_id = None
    /\ kres.keys[2].return.scope = Scope(TRUE, DEFINITION)
    /\ kres.keys[2].return.student_id = Some("b")
    /\ kres.keys[2].return.block_scope_id = Some("e")
    /\ model[2]._block_id.usage_id = "a.b"

---------------------------------------------------------------------------
(* C4 *)

\* C4: two fields that differ in name, in scope granularity or in the
\* per-user flag get different keys, whether they sit on the same or on
\* different block identities and whoever the acting users are.
C4_DistinctFieldsDistinctKeys ==
    kres # << >> /\ (\A i \in Overlays : ~Raised(kres.keys[i])) =>
        LET f1 == Field(model[1], kres.names[1])
            f2 == Field(model[2], kres.names[2])
        IN  (f1.name # f2.name
                \/ Granularity(f1.scope) # Granularity(f2.scope)
                \/ PerUser(f1.scope) # PerUser(f2.scope))
                => kres.keys[1].return # kres.keys[2].return

\* Two fields of one name and one granularity that differ only in the
\* per-user flag, with no acting user: the keys differ in the scope alone.
C4_Witness ==
    /\ kres # << >>
    /\ \A i \in Overlays : ~Raised(kres.keys[i])
    /\ kres.names[1] = kres.names[2]
    /\ Granularity(kres.keys[1].return.scope) = Granularity(kres.keys[2].return.scope)
    /\ PerUser(kres.keys[1].return.scope) # PerUser(kres.keys[2].return.scope)
    /\ kres.keys[1].return.student_id = kres.keys[2].return.student_id
    /\ kres.keys[1].return.block_scope_id = kres.keys[2].return.block_scope_id
    /\ kres.keys[1].return # kres.keys[2].return

---------------------------------------------------------------------------
(* C5 *)

\* The triple a bucket string encodes.
Triple(key) == << Granularity(key.scope), key.block_scope_id, key.student_id >>

\* C5: the bucket string is an injective encoding of (granularity tag,
\* block_scope_id, user_id): two keys whose triples differ have different
\* bucket strings.
C5_BucketInjective ==
    kres # << >> /\ kres.buckets # << >> =>
        (Triple(kres.keys[1].return) # Triple(kres.keys[2].return)
            => kres.buckets[1] # kres.buckets[2])

---------------------------------------------------------------------------
(* Properties of the store and the overlay, under Spec *)

Boolean(out) == out \in {Return(TRUE), Return(FALSE)}

\* Every name a call may be made with on an overlay.
AnyNames(self) == DeclaredNames(BlockCls(self)) \cup {"z", "fields"}

\* C1: while the store is used through one overlay only, get(name) returns
\* the value of the latest set or update entry for that name that no
\* delete(name) followed, whatever was done to the other names since.
C1_ReadYourWrites ==
    /\ \A o \in Overlays :
           writers \subseteq {o} =>
               \A n \in DOMAIN lastSet[o] :
                   DbGet(d, model[o], n) = Result(d, Return(lastSet[o][n]), << "get" >>)
    /\ (last.op = "get" /\ writers \subseteq {last.o}) =>
           \A n \in last.names \cap DOMAIN lastSet[last.o] :
               last.out = Return(lastSet[last.o][n])

\* One overlay has set a field and then another field of the same bucket.
C1_Witness ==
    \E o \in Overlays :
        /\ writers = {o}
        /\ last.op = "set" /\ last.o = o /\ ~Raised(last.out)
        /\ \E n \in DOMAIN lastSet[o], m \in last.names :
               /\ n # m
               /\ actual_key(_key(model[o], n).return) = actual_key(_key(model[o], m).return)
               /\ lastSet[o][n] # lastSet[o][m]

---------------------------------------------------------------------------
(* C3 *)

\* Two overlays on placements of one definition: the same block type and
\* acting user, equal definition_id, different usage_id.
TwoPlacements(o1, o2) ==
    /\ model[o1]._block_cls = model[o2]._block_cls
    /\ model[o1]._student_id = model[o2]._student_id
    /\ model[o1]._block_id.def_id = model[o2]._block_id.def_id
    /\ model[o1]._block_id.usage_id # model[o2]._block_id.usage_id

\* The step just taken stored a value for `name` through overlay o.
Stored(call, o, name) ==
    /\ call.op \in {"set", "update"}
    /\ call.o = o
    /\ name \in call.names
    /\ ~Raised(call.out)

\* C3: for two overlays on placements of one definition, a USAGE field
\* has distinct keys and a value set through one overlay leaves what the
\* other reads unchanged; a DEFINITION field has one key and a value set
\* through one overlay is what the other reads.
C3_UsageIsolatedDefinitionShared ==
    [][\A o1, o2 \in Overlays :
           TwoPlacements(o1, o2) =>
               \A n \in DeclaredNames(BlockCls(model[o1])) :
                   /\ Granularity(Field(model[o1], n).scope) = "USAGE" =>
                          /\ _key(model[o1], n) # _key(model[o2], n)
                          /\ Stored(last', o1, n) =>
                                 DbGet(d', model[o2], n).out = DbGet(d, model[o2], n).out
                   /\ Granularity(Field(model[o1], n).scope) = "DEFINITION" =>
                          /\ _key(model[o1], n) = _key(model[o2], n)
                          /\ Stored(last', o1, n) =>
                                 DbGet(d', model[o2], n).out = Return(lastSet'[o1][n])
      ]_vars

\* Overlay 1 has set its USAGE field and then its DEFINITION field: overlay
\* 2 reads the second and not the first.
C3_Witness ==
    /\ TwoPlacements(1, 2)
    /\ model[1]._student_id = Some("s")
    /\ Stored(last, 1, "c")
    /\ ~Raised(DbGet(d, model[1], "u").out)
    /\ DbGet(d, model[2], "u").out = KeyError
    /\ DbGet(d, model[2], "c").out = Return(lastSet[1]["c"])

---------------------------------------------------------------------------
(* C6 *)

\* C6: after a successful delete(name), and until a set or update of that
\* name, get(name) fails with KeyError, contains(name) is false, and a
\* further delete(name) fails with KeyError and leaves the store as it is.
C6_DeletedStaysAbsent ==
    /\ \A g \in gone :
           /\ DbGet(d, model[g[1]], g[2]) = Result(d, KeyError, << "get" >>)
           /\ DbContains(d, model[g[1]], g[2]) = Result(d, Return(FALSE), << "has" >>)
           /\ DbDelete(d, model[g[1]], g[2]) = Result(d, KeyError, << "delete" >>)
    /\ (last.op = "get" /\ \E n \in last.names : << last.o, n >> \in gone)
           => last.out = KeyError

\* A field that had a value has just been deleted.
C6_Witness ==
    /\ last.op = "delete" /\ ~Raised(last.out)
    /\ \E n \in last.names : << last.o, n >> \in gone
    /\ d # EmptyDict

---------------------------------------------------------------------------
(* C7 *)

\* C7: contains(name) returns a boolean and never raises: false for a name
\* declared nowhere, false for a declared field never set (also when its
\* bucket was never written), and true exactly when a value has been set
\* for the field's key and not deleted since.
C7_ContainsTotal ==
    /\ \A o \in Overlays : \A n \in AnyNames(model[o]) :
           LET r == DbContains(d, model[o], n)
           IN  /\ Boolean(r.out)
               /\ r.d = d
               /\ ~Declared(model[o], n) => r.out = Return(FALSE)
               /\ Declared(model[o], n) =>
                      r.out = Return(_key(model[o], n).return \in live)
    /\ last.op = "contains" => Boolean(last.out)

---------------------------------------------------------------------------
(* C8 *)

\* C8: get, set, delete and update given a name that no class or namespace
\* declares fail with KeyError and call nothing on the store, which stays
\* as it is; update writes no entry, also when its other names are declared.
C8_UnknownFieldNoWrite ==
    /\ \A o \in Overlays : \A n \in AnyNames(model[o]) :
           ~Declared(model[o], n) =>
               /\ DbGet(d, model[o], n) = Result(d, KeyError, << >>)
               /\ DbDelete(d, model[o], n) = Result(d, KeyError, << >>)
               /\ \A v \in Values : DbSet(d, model[o], n, v) = Result(d, KeyError, << >>)
    /\ \A o \in Overlays : \A mapping \in Mappings(model[o]) :
           (\E n \in DOMAIN mapping : ~Declared(model[o], n)) =>
               \A order \in Orders(DOMAIN mapping) :
                   DbUpdate(d, model[o], mapping, order) = Result(d, KeyError, << >>)
    /\ (last.op \in {"get", "set", "delete", "update"}
            /\ \E n \in last.names : ~Declared(model[last.o], n))
           => (last.out = KeyError /\ last.calls = << >>)

\* update has just been called with a declared and an undeclared name on a
\* store that holds something; the declared name has no value.
C8_Witness ==
    /\ last.op = "update"
    /\ last.names = {"c", "z"}
    /\ last.out = KeyError
    /\ d # EmptyDict
    /\ DbGet(d, model[last.o], "c").out = KeyError

---------------------------------------------------------------------------
(* C9 *)

\* C9: has(key) returns a boolean, true iff a value is stored under key,
\* and never fails, also for a key whose bucket was never written.
C9_HasTotal ==
    last.op = "has" =>
        \A n \in last.names :
            last.out = Return(_key(model[last.o], n).return \in live)

---------------------------------------------------------------------------
(* C10 *)

\* set called once per entry of the mapping, in the order `order`.
RECURSIVE SetEach(_, _, _, _)
SetEach(store, self, mapping, order) ==
    IF order = << >> THEN store
    ELSE SetEach(DbSet(store, self, Head(order), mapping[Head(order)]).d,
                 self, mapping, Tail(order))

\* C10: every update with declared names only makes one set_many call and
\* no set call; afterwards get(name) is mapping[name] for every entry, and
\* the store is the one that a set per entry, in any order, leads to.
C10_UpdateIsOneSetMany ==
    [][(last'.op = "update" /\ ~Raised(last'.out)) =>
           LET o == last'.o
               mapping == [n \in last'.names |-> lastSet'[o][n]]
           IN  /\ last'.calls = << "set_many" >>
               /\ \A n \in DOMAIN mapping :
                      DbGet(d', model[o], n).out = Return(mapping[n])
               /\ \A order \in Orders(DOMAIN mapping) :
                      d' = SetEach(d, model[o], mapping, order)]_vars

\* update has just stored two entries with different values, over a value
\* that one of the two names had.
C10_Witness ==
    /\ last.op = "update" /\ ~Raised(last.out)
    /\ nops = 2
    /\ \E n, m \in last.names :
           /\ n # m
           /\ lastSet[last.o][n] # lastSet[last.o][m]
           /\ << last.o, n >> \notin gone
    /\ Cardinality(live) = 2

---------------------------------------------------------------------------
(* C11 *)

\* The names of the tokens the lexer yields for text from position i on.
RECURSIVE TokNames(_, _)
TokNames(text, i) ==
    IF lex(text, i) = None THEN << >>
    ELSE << lex(text, i)[1].tokname >> \o TokNames(text, lex(text, i)[1].last + 1)

\* C11: a relative path that starts with a tag word is accepted: for a
\* path word/@word, as "child/@attr", querypath calls children(),
\* tagged(word) and attr(word) on the query object and returns the result.
C11_RelativeWordPath ==
    (TokNames(path, 1) = << "word", "slash", "atword" >> /\ qout # Running) =>
        \E w, a \in {"a", "b", "aa", "ab", "ba", "bb"} :
            qout = Return(<< << "children" >>, << "tagged", w >>, << "attr", a >> >>)

---------------------------------------------------------------------------
(* C12 *)

\* C12: a path that starts with // is accepted: for a path //word, as
\* "//grandchild", querypath calls descendants() first and tagged(word)
\* last on the query object and returns that query.
C12_LeadingDescendants ==
    (TokNames(path, 1) = << "slashslash", "word" >> /\ qout # Running) =>
        /\ ~Raised(qout)
        /\ Head(qout.return) = << "descendants" >>
        /\ qout.return[Len(qout.return)] = << "tagged", Str(path, 3, Len(path)) >>

---------------------------------------------------------------------------
(* C16 *)

\* The token the loop is about to take, when there is one.
AtToken(st, tokname) ==
    /\ qout = Running
    /\ state = st
    /\ lex(path, pos) # None
    /\ lex(path, pos)[1].tokname = tokname

\* C16: in state SEP each of the tokens .., ., // and / makes querypath
\* fail with BadPath; @word calls attr and leads to FINAL, word calls
\* children().tagged and leads to WORD, and nothing else is accepted.
C16_SepAcceptsOnlyWords ==
    [][/\ \A t \in {"dotdot", "dot", "slashslash", "slash", "err"} :
              AtToken(SEP, t) => qout' = BadPath
       /\ AtToken(SEP, "atword") =>
              (qout' = Running /\ state' = FINAL /\ Len(q') = Len(q) + 1
                  /\ q'[Len(q')][1] = "attr")
       /\ AtToken(SEP, "word") =>
              (qout' = Running /\ state' = WORD /\ Len(q') = Len(q) + 2
                  /\ q'[Len(q') - 1] = << "children" >> /\ q'[Len(q')][1] = "tagged")
      ]_vars

---------------------------------------------------------------------------
(* C17 *)

\* C17: in state ROOT, which is the state at the first token and at no
\* other, .. calls parent() and leads to WORD, . leads to WORD with no
\* call, // and / fail with NotImplementedError, @word and word fail with
\* BadPath, and a failure comes with no call made on the query object.
C17_RootRow ==
    [][/\ (qout = Running /\ lex(path, pos) # None) => (state = ROOT <=> toks = << >>)
       /\ AtToken(ROOT, "dotdot") =>
              (qout' = Running /\ state' = WORD /\ q' = << << "parent" >> >>)
       /\ AtToken(ROOT, "dot") =>
              (qout' = Running /\ state' = WORD /\ q' = << >>)
       /\ \A t \in {"slashslash", "slash"} :
              AtToken(ROOT, t) => (qout' = NotImplementedError /\ q' = << >>)
       /\ \A t \in {"atword", "word"} :
              AtToken(ROOT, t) => (qout' = BadPath /\ q' = << >>)
      ]_vars

\* querypath has failed with NotImplementedError at a leading //.
C17_Witness ==
    /\ qout = NotImplementedError
    /\ Len(toks) = 1
    /\ toks[1].tokname = "slashslash"
    /\ q = << >>
    /\ Len(path) > 2

---------------------------------------------------------------------------
(* C18 *)

\* No token form begins with the character at position i of text.
BeginsNoToken(text, i) ==
    \/ text[i] \in {" ", "\n"}
    \/ text[i] = "@" /\ WordRun(text, i + 1) = 0

\* C18: the tokens cover the path character by character with no gap; a
\* character that begins no token form is an err token of its own, and an
\* err token makes querypath fail with BadPath; a path that is accepted
\* has been consumed to its last character.
C18_LexerConsumesAll ==
    /\ \A k \in 1..Len(toks) :
           /\ toks[k].first = (IF k = 1 THEN 1 ELSE toks[k - 1].last + 1)
           /\ BeginsNoToken(path, toks[k].first) =>
                  (toks[k].tokname = "err" /\ toks[k].last = toks[k].first)
           /\ toks[k].tokname = "err" => (k = Len(toks) /\ qout = BadPath)
    /\ (qout # Running /\ ~Raised(qout)) =>
           Len(path) = (IF toks = << >> THEN 0 ELSE toks[Len(toks)].last)

---------------------------------------------------------------------------
(* C19 *)

\* The (state, token) pairs that are valid, the state each leads to and
\* the calls each makes, as C16, C17 and C20 give them.
ValidPair(st, tokname) ==
    \/ st = ROOT /\ tokname \in {"dotdot", "dot"}
    \/ st = SEP /\ tokname \in {"atword", "word"}
    \/ st = WORD /\ tokname \in {"slashslash", "slash"}

StateAfter(st, tokname) ==
    IF tokname \in {"dotdot", "dot", "word"} THEN WORD
    ELSE IF tokname \in {"slashslash", "slash"} THEN SEP
    ELSE FINAL

CallsOf(tok) ==
    IF tok.tokname = "dotdot" THEN << << "parent" >> >>
    ELSE IF tok.tokname = "slashslash" THEN << << "descendants" >> >>
    ELSE IF tok.tokname = "atword"
         THEN << << "attr", Str(path, tok.first + 1, tok.last) >> >>
    ELSE IF tok.tokname = "word" THEN << << "children" >>, << "tagged", tok.toktext >> >>
    ELSE << >>

\* The first token from position k of ts on whose pair is invalid (0 when
\* there is none) and the calls of the valid tokens before it, in order.
RECURSIVE FirstInvalid(_, _, _, _)
FirstInvalid(ts, k, st, calls) ==
    IF k > Len(ts) THEN [at |-> 0, calls |-> calls]
    ELSE IF ~ValidPair(st, ts[k].tokname) THEN [at |-> k, calls |-> calls]
    ELSE FirstInvalid(ts, k + 1, StateAfter(st, ts[k].tokname), calls \o CallsOf(ts[k]))

---------------------------------------------------------------------------
(* C20 *)

\* The positions of the attr calls among the calls made on the query object.
AttrCalls(calls) == {i \in 1..Len(calls) : calls[i][1] = "attr"}

\* C20: in state FINAL every further token, of any kind, makes querypath
\* fail with BadPath and no call; a query that is returned has had attr
\* called at most once, and as the last call.
C20_NothingAfterAttr ==
    [][/\ (qout = Running /\ state = FINAL /\ lex(path, pos) # None) =>
              (qout' = BadPath /\ q' = q)
       /\ (state' = FINAL) => (AttrCalls(q') = {Len(q')})
       /\ (state # FINAL /\ state' = FINAL) => toks'[Len(toks')].tokname = "atword"
       /\ (qout' # Running /\ ~Raised(qout')) =>
              (AttrCalls(qout'.return) \subseteq {Len(qout'.return)})
      ]_vars

\* querypath has failed at a token that follows an @word.
C20_Witness ==
    /\ qout = BadPath
    /\ state = FINAL
    /\ Len(toks) = 4
    /\ toks[3].tokname = "atword"
    /\ toks[4].tokname \in {"slash", "word", "dot"}
    /\ AttrCalls(q) = {Len(q)}

---------------------------------------------------------------------------
(* C13 *)

\* The positions in the history of the events ev of call id.
Events(ev, id) == {i \in 1..Len(log) : log[i][1] = ev /\ log[i][2] = id}

\* The block has neither what the call names nor a fallback for it.
Missing(fn, block, name) ==
    IF fn = "render"
    THEN name \notin blk[block].attrs.views /\ ~blk[block].attrs.fallback_view
    ELSE name \notin blk[block].attrs.handlers /\ ~blk[block].attrs.fallback_handler

\* C13: a render or handle call that has returned has saved its block
\* exactly once, after its view or handler (or the fallback) returned and
\* before its own return; a call for which the block has neither the named
\* view or handler nor a fallback fails with NoSuchViewError or
\* NoSuchHandlerError, with no view entered and no save.
C13_SaveOnceBeforeReturn ==
    \A p \in 1..Len(log) :
        /\ log[p][1] = "return" =>
               \E c \in Events("call", log[p][2]), v \in Events("viewreturn", log[p][2]),
                  s \in Events("save", log[p][2]) :
                   /\ Events("save", log[p][2]) = {s}
                   /\ log[s][3] = log[c][4]
                   /\ v < s /\ s < p
        /\ (log[p][1] = "call" /\ log[p][5] # None
                /\ Missing(log[p][3], log[p][4], log[p][5][1])) =>
               \A e \in (p + 1)..Len(log) :
                   log[e][2] = log[p][2] =>
                       log[e] = << "raise", log[p][2],
                                   IF log[p][3] = "render" THEN "NoSuchViewError"
                                   ELSE "NoSuchHandlerError" >>
        /\ (log[p][1] = "raise" /\ log[p][3] \in {"NoSuchViewError", "NoSuchHandlerError"}) =>
               /\ Events("save", log[p][2]) = {}
               /\ \E c \in Events("call", log[p][2]) :
                      Missing(log[c][3], log[c][4], log[c][5][1])

\* A render that rendered a child through a fallback view has returned,
\* each of the two calls with its save.
C13_Witness ==
    /\ rout = Return(1)
    /\ \E id \in 2..ncalls :
           /\ Events("return", id) # {}
           /\ \E c \in Events("call", id) : blk[log[c][4]].attrs.fallback_view
    /\ Events("save", 1) # {}

---------------------------------------------------------------------------
(* C14 *)

\* C14: while a block is being rendered with view V, a child that
\* render_child was given no view name for is rendered with V: the first
\* child and every later one, at every depth, whichever runtime objects
\* the blocks have.
C14_ChildRenderedWithParentView ==
    \A i \in 2..Len(stack) :
        (stack[i].fn = "render" /\ stack[i].given = None) =>
            stack[i].name = stack[i - 1].name

---------------------------------------------------------------------------
(* C15 *)

\* The number of fields the namespaces of cls from position i on declare.
RECURSIVE NamespaceFieldCount(_, _)
NamespaceFieldCount(cls, i) ==
    IF i > Len(cls.namespaces) THEN 0
    ELSE Len(cls.ns[cls.namespaces[i]]) + NamespaceFieldCount(cls, i + 1)

\* The name of the k-th declaration of the namespaces of cls from position
\* i on.
RECURSIVE NamespaceDeclaration(_, _, _)
NamespaceDeclaration(cls, i, k) ==
    IF k <= Len(cls.ns[cls.namespaces[i]]) THEN cls.ns[cls.namespaces[i]][k].name
    ELSE NamespaceDeclaration(cls, i + 1, k - Len(cls.ns[cls.namespaces[i]]))

\* The name of the k-th declaration of cls: own fields first, in declared
\* order, then the namespaces' fields, namespaces in declaration order.
Declaration(cls, k) ==
    IF k <= Len(cls.fields) THEN cls.fields[k].name
    ELSE NamespaceDeclaration(cls, 1, k - Len(cls.fields))

\* C15: keys() returns one name per declaration, the own fields first and
\* then each namespace's fields, in declaration order and with nothing
\* left out for being there already; len(model) is the length of that
\* list; neither depends on what the store holds.
C15_KeysListEveryDeclaration ==
    LET cls == BlockCls(model[last.o])
        n == Len(cls.fields) + NamespaceFieldCount(cls, 1)
    IN  /\ last.op = "keys" =>
               /\ ~Raised(last.out)
               /\ Len(last.out.return) = n
               /\ \A k \in 1..n : last.out.return[k] = Declaration(cls, k)
        /\ last.op = "len" => last.out = Return(n)
        /\ last.op \in {"keys", "len"} => last.calls = << >>

====
